---- MODULE Spec2Model ----
(***************************************************************************)
(* A model of src/src/App.tsx (Raais/timeslots): the timeslot interval     *)
(* store (addRangeNoOverlap), the day-scoped persistence in localStorage   *)
(* (readStoreForToday / writeStore), the 1 Hz tick and the time            *)
(* arithmetic, the viewport progress and the colour derivation.            *)
(*                                                                         *)
(* JavaScript strings are sequences of UTF-16 code units, so a string is   *)
(* modelled as a sequence of naturals ("00:01" is <<48,48,58,48,49>>).     *)
(* A JavaScript number that is a percentage is an exact fraction           *)
(* [num, den] in lowest terms (floating point rounding is not modelled).   *)
(***************************************************************************)
EXTENDS Integers, Sequences, FiniteSets, TLC

VARIABLES
    clock,                 \* the wall clock: [day |-> days since start, sec |-> seconds since midnight]
    storage,               \* localStorage item "timeslots": [present, text]
    timeslots,             \* useState: the rendered timeslots
    timeslotsDebug,        \* useState: the raw blob shown in the island
    dayRemainingPercent,   \* useState
    remainingLabel,        \* useState
    remainingSecondsValue, \* useState
    remainingParts,        \* useState
    nowSeconds,            \* useState
    pickerStart,           \* useState: value of the first <input type="time">
    pickerEnd,             \* useState: value of the second <input type="time">
    startAtSix,            \* useState: the viewport toggle
    mounted,               \* whether the mount effect has run
    savedStore,            \* history: the store handed to the last writeStore
    lastCreate,            \* history: the last run of createFromPickers that reached addRangeNoOverlap
    colorCall              \* history: the last call of colorFromName made by the colour driver

vars == <<clock, storage, timeslots, timeslotsDebug, dayRemainingPercent,
          remainingLabel, remainingSecondsValue, remainingParts, nowSeconds,
          pickerStart, pickerEnd, startAtSix, mounted, savedStore, lastCreate,
          colorCall>>

appVars == <<clock, storage, timeslots, timeslotsDebug, dayRemainingPercent,
             remainingLabel, remainingSecondsValue, remainingParts, nowSeconds,
             pickerStart, pickerEnd, startAtSix, mounted, savedStore, lastCreate>>

---------------------------------------------------------------------------
(* Bounds of the model *)

\* the wall clock rolls over to a next day at most MaxDay times
MaxDay == 1
\* names hashed by the colour driver have at most MaxNameLen code units
MaxNameLen == 6

(* Program constants *)
DaySeconds == 86400
LastSecond == 86399
VIEWPORT_START_6 == 21600
HashSeed == 5381

---------------------------------------------------------------------------
(* Arithmetic helpers *)

Max(a, b) == IF a >= b THEN a ELSE b
Min(a, b) == IF a <= b THEN a ELSE b
Abs(a) == IF a < 0 THEN -a ELSE a

RECURSIVE Gcd(_, _)
Gcd(a, b) == IF b = 0 THEN a ELSE Gcd(b, a % b)

\* the fraction num/den (den > 0) in lowest terms
Frac(num, den) ==
    LET g == Gcd(Abs(num), den)
    IN  [num |-> num \div g, den |-> den \div g]

FracLeq(p, q) == p.num * q.den <= q.num * p.den

\* Math.max(0, Math.min(100, p))
ClampPercent(p) ==
    IF FracLeq(p, Frac(0, 1)) THEN Frac(0, 1)
    ELSE IF FracLeq(Frac(100, 1), p) THEN Frac(100, 1)
    ELSE p

---------------------------------------------------------------------------
(* Strings *)

\* String(n) for a natural n: its decimal digits
RECURSIVE NumberToString(_)
NumberToString(n) ==
    IF n < 10 THEN <<48 + n>>
    ELSE NumberToString(n \div 10) \o <<48 + (n % 10)>>

\* s.padStart(2, "0")
PadStart2(s) == IF Len(s) >= 2 THEN s ELSE <<48>> \o s

IsDigit(c) == c >= 48 /\ c <= 57

\* Number(s) for a string of decimal digits
RECURSIVE StringToNumber(_)
StringToNumber(s) ==
    IF Len(s) = 0 THEN 0
    ELSE 10 * StringToNumber(SubSeq(s, 1, Len(s) - 1)) + (s[Len(s)] - 48)

WhiteSpace == {9, 10, 11, 12, 13, 32, 160}

\* s.trim()
RECURSIVE Trim(_)
Trim(s) ==
    IF Len(s) = 0 THEN s
    ELSE IF s[1] \in WhiteSpace THEN Trim(Tail(s))
    ELSE IF s[Len(s)] \in WhiteSpace THEN Trim(SubSeq(s, 1, Len(s) - 1))
    ELSE s

---------------------------------------------------------------------------
(* Time arithmetic *)

IsLeap(y) == (y % 4 = 0 /\ y % 100 # 0) \/ y % 400 = 0

\* days in month m (0-based, as Date.getMonth) of year y
DaysInMonth(m, y) ==
    IF m = 1 THEN (IF IsLeap(y) THEN 29 ELSE 28)
    ELSE IF m \in {3, 5, 8, 10} THEN 30 ELSE 31

\* the calendar day after <<day, month, year>>
NextDate(d) ==
    IF d[1] < DaysInMonth(d[2], d[3]) THEN <<d[1] + 1, d[2], d[3]>>
    ELSE IF d[2] < 11 THEN <<1, d[2] + 1, d[3]>>
    ELSE <<1, 0, d[3] + 1>>

\* the calendar day on which the page is opened: 31 December 2025
StartDate == <<31, 11, 2025>>

RECURSIVE DateOfDay(_)
DateOfDay(n) == IF n = 0 THEN StartDate ELSE NextDate(DateOfDay(n - 1))

getTodayArray(now) == DateOfDay(now.day)

\* a mutant of isSameDate: only the day of the month is compared
isSameDateDayOnly(a, b) ==
    IF Len(a) # 3 THEN FALSE ELSE a[1] = b[1]

isSameDate(a, b) ==
    IF Len(a) # 3 THEN FALSE
    ELSE a[1] = b[1] /\ a[2] = b[2] /\ a[3] = b[3]

getSecondsSinceMidnight(now) == now.sec

getDayProgressPercent(now) ==
    ClampPercent(Frac(getSecondsSinceMidnight(now) * 100, DaySeconds))

getDayRemainingPercent(now) ==
    LET p == getDayProgressPercent(now)
    IN  Frac(100 * p.den - p.num, p.den)

\* a mutant of getRemainingSeconds: the seconds left are counted to 23:59:59
getRemainingSecondsToLastSecond(now) == Max(0, LastSecond - getSecondsSinceMidnight(now))

getRemainingSeconds(now) == Max(0, DaySeconds - getSecondsSinceMidnight(now))

formatHhMmSsParts(totalSeconds) ==
    LET hours   == totalSeconds \div 3600
        minutes == (totalSeconds % 3600) \div 60
        seconds == totalSeconds % 60
    IN  [hh |-> PadStart2(NumberToString(hours)),
         mm |-> PadStart2(NumberToString(minutes)),
         ss |-> PadStart2(NumberToString(seconds))]

formatHhMmSs(totalSeconds) ==
    LET hours   == totalSeconds \div 3600
        minutes == (totalSeconds % 3600) \div 60
        seconds == totalSeconds % 60
    IN  PadStart2(NumberToString(hours)) \o <<58>>
            \o PadStart2(NumberToString(minutes)) \o <<58>>
            \o PadStart2(NumberToString(seconds))

toTimeStringHHMM(seconds) ==
    LET s == Max(0, Min(LastSecond, seconds))
    IN  PadStart2(NumberToString(s \div 3600)) \o <<58>>
            \o PadStart2(NumberToString((s % 3600) \div 60))

\* /^(\d{2}):(\d{2})$/ ; no match gives 0
fromTimeStringHHMM(value) ==
    IF ~(Len(value) = 5 /\ IsDigit(value[1]) /\ IsDigit(value[2]) /\ value[3] = 58
            /\ IsDigit(value[4]) /\ IsDigit(value[5]))
    THEN 0
    ELSE LET hh == Max(0, Min(23, StringToNumber(SubSeq(value, 1, 2))))
             mm == Max(0, Min(59, StringToNumber(SubSeq(value, 4, 5))))
         IN  hh * 3600 + mm * 60

normalizeRange(start, end) ==
    LET s0 == IF start > end THEN end ELSE start
        e0 == IF start > end THEN start ELSE end
    IN  [start |-> Max(0, Min(LastSecond, s0)),
         end   |-> Max(0, Min(LastSecond, e0))]

---------------------------------------------------------------------------
(* Colour derivation.  The hash h is a 32-bit integer; it is kept as two   *)
(* 16-bit halves [hi, lo] of its two's complement bit pattern.             *)

RECURSIVE Xor16(_, _, _)
\* the bitwise XOR of the low `bits` bits of a and b
Xor16(a, b, bits) ==
    IF bits = 0 THEN 0
    ELSE ((a + b) % 2) + 2 * Xor16(a \div 2, b \div 2, bits - 1)

\* ((h << 5) + h) ^ code, as a 32-bit integer
HashStep(h, code) ==
    LET shLo  == (h.lo * 32) % 65536
        shHi  == (h.hi * 32 + (h.lo * 32) \div 65536) % 65536
        sumLo == (shLo + h.lo) % 65536
        sumHi == (shHi + h.hi + (shLo + h.lo) \div 65536) % 65536
    IN  [hi |-> sumHi, lo |-> Xor16(sumLo, code, 16)]

RECURSIVE HashName(_, _, _)
\* the loop of colorFromName from index i (1-based) on
HashName(name, i, h) ==
    IF i > Len(name) THEN h
    ELSE HashName(name, i + 1, HashStep(h, name[i]))

\* Math.abs(h) % 360 for the 32-bit h (65536 % 360 = 16, 2^32 % 360 = 256)
AbsMod360(h) ==
    LET u == ((h.hi % 360) * 16 + (h.lo % 360)) % 360
    IN  IF h.hi >= 32768 THEN (256 + 360 - u) % 360 ELSE u

\* a mutant of colorFromName: the hue of a past slot is turned by 180 degrees
colorFromNameHueByState(name, isPast, isRunning) ==
    LET h == HashName(name, 1, [hi |-> 0, lo |-> HashSeed])
    IN  [hue        |-> (AbsMod360(h) + (IF isPast THEN 180 ELSE 0)) % 360,
         saturation |-> IF isRunning THEN 5 ELSE IF isPast THEN 15 ELSE 70,
         lightness  |-> IF isRunning THEN 30 ELSE IF isPast THEN 25 ELSE 55,
         alpha      |-> IF isRunning THEN "0.8" ELSE IF isPast THEN "0.35" ELSE "0.7"]

\* the four components of the returned hsla(...) string
colorFromName(name, isPast, isRunning) ==
    LET h == HashName(name, 1, [hi |-> 0, lo |-> HashSeed])
    IN  [hue        |-> AbsMod360(h),
         saturation |-> IF isRunning THEN 5 ELSE IF isPast THEN 15 ELSE 70,
         lightness  |-> IF isRunning THEN 30 ELSE IF isPast THEN 25 ELSE 55,
         alpha      |-> IF isRunning THEN "0.8" ELSE IF isPast THEN "0.35" ELSE "0.7"]

---------------------------------------------------------------------------
(* JSON.  The text of a blob is kept as its sequence of tokens; a token is *)
(* a punctuation mark, a number or a string literal.                       *)

Punct(c)  == [k |-> c, n |-> 0, s |-> <<>>]
NumTok(n) == [k |-> "num", n |-> n, s |-> <<>>]
StrTok(s) == [k |-> "str", n |-> 0, s |-> s]

KeyDate      == StrTok(<<100, 97, 116, 101>>)
KeyTimeslots == StrTok(<<116, 105, 109, 101, 115, 108, 111, 116, 115>>)
KeyStart     == StrTok(<<115, 116, 97, 114, 116>>)
KeyEnd       == StrTok(<<101, 110, 100>>)
KeyMeta      == StrTok(<<109, 101, 116, 97>>)
KeyName      == StrTok(<<110, 97, 109, 101>>)

\* {"start":s,"end":e,"meta":{"name":n}}
StringifyRange(r) ==
    <<Punct("{"), KeyStart, Punct(":"), NumTok(r.start), Punct(","),
      KeyEnd, Punct(":"), NumTok(r.end), Punct(","),
      KeyMeta, Punct(":"), Punct("{"), KeyName, Punct(":"), StrTok(r.meta.name),
      Punct("}"), Punct("}")>>

RECURSIVE StringifyRanges(_, _)
StringifyRanges(list, i) ==
    IF i > Len(list) THEN <<>>
    ELSE (IF i > 1 THEN <<Punct(",")>> ELSE <<>>)
            \o StringifyRange(list[i]) \o StringifyRanges(list, i + 1)

\* a mutant of JSONstringify: the "end" of every range is written one too small
JSONstringifyEndOff(store) ==
    <<Punct("{"), KeyDate, Punct(":"), Punct("["),
      NumTok(store.date[1]), Punct(","), NumTok(store.date[2]), Punct(","),
      NumTok(store.date[3]), Punct("]"), Punct(","),
      KeyTimeslots, Punct(":"), Punct("[")>>
        \o StringifyRanges([i \in DOMAIN store.timeslots |->
                [store.timeslots[i] EXCEPT !.end = @ - 1]], 1)
        \o <<Punct("]"), Punct("}")>>

\* JSON.stringify(store): {"date":[d,m,y],"timeslots":[...]}
JSONstringify(store) ==
    <<Punct("{"), KeyDate, Punct(":"), Punct("["),
      NumTok(store.date[1]), Punct(","), NumTok(store.date[2]), Punct(","),
      NumTok(store.date[3]), Punct("]"), Punct(","),
      KeyTimeslots, Punct(":"), Punct("[")>>
        \o StringifyRanges(store.timeslots, 1)
        \o <<Punct("]"), Punct("}")>>

IsTok(t, i, tok) == i <= Len(t) /\ t[i] = tok
IsNum(t, i) == i <= Len(t) /\ t[i].k = "num"
IsStr(t, i) == i <= Len(t) /\ t[i].k = "str"

ParseFail == [ok |-> FALSE, val |-> <<>>, next |-> 0]

RECURSIVE ParseNumbers(_, _, _)
\* the elements of an array of numbers, from the first element at i on
ParseNumbers(t, i, acc) ==
    IF ~IsNum(t, i) THEN ParseFail
    ELSE IF IsTok(t, i + 1, Punct(","))
         THEN ParseNumbers(t, i + 2, Append(acc, t[i].n))
    ELSE IF IsTok(t, i + 1, Punct("]"))
         THEN [ok |-> TRUE, val |-> Append(acc, t[i].n), next |-> i + 2]
    ELSE ParseFail

\* an array of numbers starting at i
ParseNumberArray(t, i) ==
    IF ~IsTok(t, i, Punct("[")) THEN ParseFail
    ELSE IF IsTok(t, i + 1, Punct("]"))
         THEN [ok |-> TRUE, val |-> <<>>, next |-> i + 2]
    ELSE ParseNumbers(t, i + 1, <<>>)

\* one range object starting at i
ParseRange(t, i) ==
    IF /\ IsTok(t, i, Punct("{"))
       /\ IsTok(t, i + 1, KeyStart) /\ IsTok(t, i + 2, Punct(":")) /\ IsNum(t, i + 3)
       /\ IsTok(t, i + 4, Punct(","))
       /\ IsTok(t, i + 5, KeyEnd) /\ IsTok(t, i + 6, Punct(":")) /\ IsNum(t, i + 7)
       /\ IsTok(t, i + 8, Punct(","))
       /\ IsTok(t, i + 9, KeyMeta) /\ IsTok(t, i + 10, Punct(":"))
       /\ IsTok(t, i + 11, Punct("{"))
       /\ IsTok(t, i + 12, KeyName) /\ IsTok(t, i + 13, Punct(":")) /\ IsStr(t, i + 14)
       /\ IsTok(t, i + 15, Punct("}")) /\ IsTok(t, i + 16, Punct("}"))
    THEN [ok |-> TRUE,
          val |-> [start |-> t[i + 3].n, end |-> t[i + 7].n,
                   meta |-> [name |-> t[i + 14].s]],
          next |-> i + 17]
    ELSE ParseFail

RECURSIVE ParseRanges(_, _, _)
\* the elements of an array of range objects, from the first element at i on
ParseRanges(t, i, acc) ==
    LET r == ParseRange(t, i)
    IN  IF ~r.ok THEN ParseFail
        ELSE IF IsTok(t, r.next, Punct(","))
             THEN ParseRanges(t, r.next + 1, Append(acc, r.val))
        ELSE IF IsTok(t, r.next, Punct("]"))
             THEN [ok |-> TRUE, val |-> Append(acc, r.val), next |-> r.next + 1]
        ELSE ParseFail

ParseRangeArray(t, i) ==
    IF ~IsTok(t, i, Punct("[")) THEN ParseFail
    ELSE IF IsTok(t, i + 1, Punct("]"))
         THEN [ok |-> TRUE, val |-> <<>>, next |-> i + 2]
    ELSE ParseRanges(t, i + 1, <<>>)

ParsedNothing == [ok |-> FALSE, date |-> <<>>, hasTimeslots |-> FALSE, timeslots |-> <<>>]

\* JSON.parse(raw) for the texts a store blob can be: {} , {"date":[...]} and
\* {"date":[...],"timeslots":[...]}; any other text is a SyntaxError (ok = FALSE).
\* A missing "date" is the empty sequence, which is not an array of length 3.
JSONparse(t) ==
    IF ~IsTok(t, 1, Punct("{")) THEN ParsedNothing
    ELSE IF IsTok(t, 2, Punct("}")) /\ Len(t) = 2
         THEN [ParsedNothing EXCEPT !.ok = TRUE]
    ELSE IF ~(IsTok(t, 2, KeyDate) /\ IsTok(t, 3, Punct(":"))) THEN ParsedNothing
    ELSE LET d == ParseNumberArray(t, 4)
         IN  IF ~d.ok THEN ParsedNothing
             ELSE IF IsTok(t, d.next, Punct("}")) /\ Len(t) = d.next
                  THEN [ok |-> TRUE, date |-> d.val,
                        hasTimeslots |-> FALSE, timeslots |-> <<>>]
             ELSE IF ~(/\ IsTok(t, d.next, Punct(","))
                       /\ IsTok(t, d.next + 1, KeyTimeslots)
                       /\ IsTok(t, d.next + 2, Punct(":")))
                  THEN ParsedNothing
             ELSE LET a == ParseRangeArray(t, d.next + 3)
                  IN  IF a.ok /\ IsTok(t, a.next, Punct("}")) /\ Len(t) = a.next
                      THEN [ok |-> TRUE, date |-> d.val,
                            hasTimeslots |-> TRUE, timeslots |-> a.val]
                      ELSE ParsedNothing

---------------------------------------------------------------------------
(* Day-scoped persistence *)

makeDefaultTimeslots(now) == [date |-> getTodayArray(now), timeslots |-> <<>>]

\* localStorage.getItem("timeslots") is null when the item is absent
NoItem == [present |-> FALSE, text |-> <<>>]
Item(text) == [present |-> TRUE, text |-> text]

\* readStoreForToday applied to the item `item` of localStorage.  The blobs of
\* the model hold no field besides date and timeslots, so the spread of the
\* parsed object adds nothing to the store returned.
readItemForToday(item, now) ==
    LET today == getTodayArray(now)
    IN  IF ~item.present \/ item.text = <<>> THEN makeDefaultTimeslots(now)
        ELSE LET parsed == JSONparse(item.text)
             IN  IF ~parsed.ok THEN makeDefaultTimeslots(now)
                 ELSE IF ~isSameDate(parsed.date, today) THEN makeDefaultTimeslots(now)
                 ELSE [date |-> today,
                       timeslots |-> IF parsed.hasTimeslots THEN parsed.timeslots
                                     ELSE <<>>]

readStoreForToday(now) == readItemForToday(storage, now)

writeStore(store) ==
    LET raw == JSONstringify(store)
    IN  /\ storage' = Item(raw)
        /\ timeslotsDebug' = raw
        /\ timeslots' = store.timeslots
        /\ savedStore' = store

---------------------------------------------------------------------------
(* Interval store.  Positions are 0-based as in the source; list[k] of the *)
(* source is list[k + 1] here.                                             *)

RECURSIVE BinarySearch(_, _, _, _)
BinarySearch(list, s, lo, hi) ==
    IF lo < hi
    THEN LET mid == (lo + hi) \div 2
         IN  IF list[mid + 1].start <= s THEN BinarySearch(list, s, mid + 1, hi)
             ELSE BinarySearch(list, s, lo, mid)
    ELSE lo

\* the insert position: the first item with start > s
findInsertPos(list, s) == BinarySearch(list, s, 0, Len(list))

\* a mutant of overlapError: the check against the next range is missing
overlapErrorPreviousOnly(list, pos, s, e) ==
    IF pos > 0 /\ list[pos].end >= s THEN "overlap with previous range"
    ELSE ""

\* a mutant of overlapError: the check against the previous range is missing
overlapErrorNextOnly(list, pos, s, e) ==
    IF pos < Len(list) /\ list[pos + 1].start <= e THEN "overlap with next range"
    ELSE ""

\* the overlap checks: the message of the Error thrown, "" when none is
overlapError(list, pos, s, e) ==
    IF pos > 0 /\ list[pos].end >= s THEN "overlap with previous range"
    ELSE IF pos < Len(list) /\ list[pos + 1].start <= e THEN "overlap with next range"
    ELSE ""

\* a mutant of canMerge: the names are not compared
canMergeAnyName(a, b) == a.end + 1 = b.start

\* a mutant of canMerge: contiguous ranges are never merged
canMergeNever(a, b) == FALSE

\* contiguous and same meta.name
canMerge(a, b) == a.end + 1 = b.start /\ a.meta.name = b.meta.name

\* seq.splice(pos, 0, x)
SpliceIn(seq, pos, x) == SubSeq(seq, 1, pos) \o <<x>> \o SubSeq(seq, pos + 1, Len(seq))

\* seq.splice(pos, 1)
SpliceOut(seq, pos) == SubSeq(seq, 1, pos) \o SubSeq(seq, pos + 2, Len(seq))

\* The call addRangeNoOverlap(list, start, end, meta).  The range objects live
\* in a heap: objects 1..Len(list) are those the caller's list holds, object
\* Len(list) + 1 is the new range; list.slice() copies the references only.
\* The result gives the Error thrown ("" when none), the returned array and
\* the caller's list as it reads after the call.
addRangeNoOverlap(list, start, end, meta) ==
    IF "name" \notin DOMAIN meta
    THEN [threw |-> "meta must be an object with meta.name (string)",
          next |-> <<>>, list |-> list, mergedLeft |-> FALSE, mergedRight |-> FALSE]
    ELSE
    LET r   == normalizeRange(start, end)
        s   == r.start
        e   == r.end
        pos == findInsertPos(list, s)
        err == overlapError(list, pos, s, e)
    IN  IF err # ""
        THEN [threw |-> err, next |-> <<>>, list |-> list,
              mergedLeft |-> FALSE, mergedRight |-> FALSE]
        ELSE
        LET n     == Len(list)
            heap0 == [i \in 1..(n + 1) |->
                        IF i <= n THEN list[i] ELSE [start |-> s, end |-> e, meta |-> meta]]
            next0 == SpliceIn([i \in 1..n |-> i], pos, n + 1)
            left  == pos > 0 /\ canMerge(heap0[next0[pos]], heap0[next0[pos + 1]])
            heap1 == IF left
                     THEN [heap0 EXCEPT ![next0[pos]].end = heap0[next0[pos + 1]].end]
                     ELSE heap0
            next1 == IF left THEN SpliceOut(next0, pos) ELSE next0
            pos1  == IF left THEN pos - 1 ELSE pos
            right == /\ pos1 < Len(next1) - 1
                     /\ canMerge(heap1[next1[pos1 + 1]], heap1[next1[pos1 + 2]])
            heap2 == IF right
                     THEN [heap1 EXCEPT ![next1[pos1 + 1]].end = heap1[next1[pos1 + 2]].end]
                     ELSE heap1
            next2 == IF right THEN SpliceOut(next1, pos1 + 1) ELSE next1
        IN  [threw |-> "",
             next  |-> [i \in 1..Len(next2) |-> heap2[next2[i]]],
             list  |-> [i \in 1..n |-> heap2[i]],
             mergedLeft |-> left, mergedRight |-> right]

\* the first range with start <= nowSeconds <= end; <<>> stands for null
RECURSIVE findActiveSlotFrom(_, _, _)
findActiveSlotFrom(list, now, i) ==
    IF i > Len(list) THEN <<>>
    ELSE IF list[i].start <= now /\ now <= list[i].end THEN <<list[i]>>
    ELSE findActiveSlotFrom(list, now, i + 1)

findActiveSlot(list, now) == findActiveSlotFrom(list, now, 1)

---------------------------------------------------------------------------
(* What a render derives from the state *)

viewStartSeconds == IF startAtSix THEN 6 * 3600 ELSE 0
viewSpanSeconds == DaySeconds - viewStartSeconds

\* a mutant of viewportProgressPercent: the progress of the whole day
viewportProgressOfDay == ClampPercent(Frac(nowSeconds * 100, DaySeconds))

viewportProgressPercent ==
    ClampPercent(Frac((nowSeconds - VIEWPORT_START_6) * 100, DaySeconds - VIEWPORT_START_6))

viewportRemainingPercent ==
    Frac(100 * viewportProgressPercent.den - viewportProgressPercent.num,
         viewportProgressPercent.den)

activeSlot == findActiveSlot(timeslots, nowSeconds)

---------------------------------------------------------------------------
(* Inputs *)

\* the instants of a day at which the wall clock is observed
ClockSeconds == {0, VIEWPORT_START_6, LastSecond}

\* what the time pickers can hold: "" (cleared) and 00:00, 00:01, 00:02, 00:03
PickerValues == {<<>>} \cup {toTimeStringHHMM(60 * m) : m \in {0, 1, 2, 3}}

\* what window.prompt can return: null (cancelled), "", " ", "a", " a ", "b"
PromptInputs ==
    {[isNull |-> TRUE, s |-> <<>>]}
        \cup {[isNull |-> FALSE, s |-> x] :
                x \in {<<>>, <<32>>, <<97>>, <<32, 97, 32>>, <<98>>}}

Range(s, e, name) == [start |-> s, end |-> e, meta |-> [name |-> name]]

\* what localStorage can hold when the page is opened: nothing, "", a text
\* that is not JSON, {}, today's blob without timeslots, blobs an earlier
\* session of the page wrote on another day (31 October and 30 December 2025)
\* and the blob an earlier session wrote today
InitialStorage ==
    {NoItem,
     Item(<<>>),
     Item(<<Punct("{"), KeyDate, Punct(":"), Punct("[")>>),
     Item(<<Punct("{"), Punct("}")>>),
     Item(<<Punct("{"), KeyDate, Punct(":"), Punct("["), NumTok(31), Punct(","),
            NumTok(11), Punct(","), NumTok(2025), Punct("]"), Punct("}")>>),
     Item(JSONstringify([date |-> <<31, 9, 2025>>,
                         timeslots |-> <<Range(0, 59, <<97>>)>>])),
     Item(JSONstringify([date |-> <<30, 11, 2025>>,
                         timeslots |-> <<Range(60, 119, <<98>>)>>])),
     Item(JSONstringify([date |-> StartDate,
                         timeslots |-> <<Range(0, 59, <<97>>)>>]))}

NoCreate ==
    [called |-> FALSE, today |-> <<>>, storageBefore |-> NoItem,
     timeslotsBefore |-> <<>>, list |-> <<>>, start |-> 0, end |-> 0,
     name |-> <<>>, threw |-> "", next |-> <<>>, listAfter |-> <<>>,
     mergedLeft |-> FALSE, mergedRight |-> FALSE]

NoColorCall ==
    [done |-> FALSE, name |-> <<>>, isPast |-> FALSE, isRunning |-> FALSE,
     out |-> [hue |-> 0, saturation |-> 0, lightness |-> 0, alpha |-> ""]]

---------------------------------------------------------------------------
(* The component *)

\* the state after construction: the useState initialisers have run, the
\* mount effect has not
Init ==
    /\ clock \in [day : {0}, sec : ClockSeconds]
    /\ storage \in InitialStorage
    /\ timeslots = <<>>
    /\ timeslotsDebug = <<Punct("{"), Punct("}")>>
    /\ dayRemainingPercent = getDayRemainingPercent(clock)
    /\ remainingLabel = formatHhMmSs(getRemainingSeconds(clock))
    /\ remainingSecondsValue = getRemainingSeconds(clock)
    /\ remainingParts = formatHhMmSsParts(getRemainingSeconds(clock))
    /\ nowSeconds = getSecondsSinceMidnight(clock)
    /\ pickerStart = toTimeStringHHMM(0)
    /\ pickerEnd = toTimeStringHHMM(0)
    /\ startAtSix = TRUE
    /\ mounted = FALSE
    /\ savedStore = [date |-> <<>>, timeslots |-> <<>>]
    /\ lastCreate = NoCreate
    /\ colorCall = NoColorCall

\* the mount effect: load today's store and write it back
Mount ==
    /\ ~mounted
    /\ mounted' = TRUE
    /\ writeStore(readStoreForToday(clock))
    /\ lastCreate' = NoCreate
    /\ UNCHANGED <<clock, dayRemainingPercent, remainingLabel, remainingSecondsValue,
                   remainingParts, nowSeconds, pickerStart, pickerEnd, startAtSix,
                   colorCall>>

\* midnight passes: the calendar day changes
DayChange ==
    /\ mounted
    /\ clock.day < MaxDay
    /\ clock' = [day |-> clock.day + 1, sec |-> 0]
    /\ lastCreate' = NoCreate
    /\ UNCHANGED <<storage, timeslots, timeslotsDebug, dayRemainingPercent,
                   remainingLabel, remainingSecondsValue, remainingParts, nowSeconds,
                   pickerStart, pickerEnd, startAtSix, mounted, savedStore, colorCall>>

\* the callback of window.setInterval(..., 1000), run at the instant `now`
TickAt(now) ==
    /\ clock' = now
    /\ dayRemainingPercent' = getDayRemainingPercent(now)
    /\ remainingSecondsValue' = getRemainingSeconds(now)
    /\ remainingLabel' = formatHhMmSs(getRemainingSeconds(now))
    /\ remainingParts' = formatHhMmSsParts(getRemainingSeconds(now))
    /\ nowSeconds' = getSecondsSinceMidnight(now)
    /\ lastCreate' = NoCreate
    /\ UNCHANGED <<storage, timeslots, timeslotsDebug, pickerStart, pickerEnd,
                   startAtSix, mounted, savedStore, colorCall>>

\* a tick: the wall clock has moved on within the day to the instant at which
\* the callback runs
Tick ==
    /\ mounted
    /\ \E s \in ClockSeconds :
          /\ s >= clock.sec
          /\ TickAt([clock EXCEPT !.sec = s])

SetPickerStart ==
    /\ mounted
    /\ \E v \in PickerValues : pickerStart' = v
    /\ lastCreate' = NoCreate
    /\ UNCHANGED <<clock, storage, timeslots, timeslotsDebug, dayRemainingPercent,
                   remainingLabel, remainingSecondsValue, remainingParts, nowSeconds,
                   pickerEnd, startAtSix, mounted, savedStore, colorCall>>

SetPickerEnd ==
    /\ mounted
    /\ \E v \in PickerValues : pickerEnd' = v
    /\ lastCreate' = NoCreate
    /\ UNCHANGED <<clock, storage, timeslots, timeslotsDebug, dayRemainingPercent,
                   remainingLabel, remainingSecondsValue, remainingParts, nowSeconds,
                   pickerStart, startAtSix, mounted, savedStore, colorCall>>

\* the viewport checkbox
SetStartAtSix ==
    /\ mounted
    /\ startAtSix' = ~startAtSix
    /\ lastCreate' = NoCreate
    /\ UNCHANGED <<clock, storage, timeslots, timeslotsDebug, dayRemainingPercent,
                   remainingLabel, remainingSecondsValue, remainingParts, nowSeconds,
                   pickerStart, pickerEnd, mounted, savedStore, colorCall>>

resetTimeslots ==
    /\ mounted
    /\ writeStore(makeDefaultTimeslots(clock))
    /\ lastCreate' = NoCreate
    /\ UNCHANGED <<clock, dayRemainingPercent, remainingLabel, remainingSecondsValue,
                   remainingParts, nowSeconds, pickerStart, pickerEnd, startAtSix,
                   mounted, colorCall>>

\* the rest of createFromPickers once the store was read and
\* addRangeNoOverlap has returned or thrown `res`
createCommit(name, startSeconds, endSeconds, store, res) ==
    /\ lastCreate' =
            [called |-> TRUE, today |-> getTodayArray(clock),
             storageBefore |-> storage, timeslotsBefore |-> timeslots,
             list |-> store.timeslots, start |-> startSeconds,
             end |-> endSeconds, name |-> name, threw |-> res.threw,
             next |-> res.next, listAfter |-> res.list,
             mergedLeft |-> res.mergedLeft, mergedRight |-> res.mergedRight]
    /\ IF res.threw = ""
       THEN writeStore([date |-> store.date, timeslots |-> res.next])
       ELSE UNCHANGED <<storage, timeslots, timeslotsDebug, savedStore>>
    /\ UNCHANGED <<clock, dayRemainingPercent, remainingLabel,
                   remainingSecondsValue, remainingParts, nowSeconds,
                   pickerStart, pickerEnd, startAtSix, mounted, colorCall>>

\* the create button, with nameRaw what window.prompt returns
createFromPickersWith(nameRaw) ==
    LET name         == Trim(IF nameRaw.isNull THEN <<>> ELSE nameRaw.s)
        startSeconds == fromTimeStringHHMM(pickerStart)
        endExclusive == fromTimeStringHHMM(pickerEnd)
        endSeconds   == Max(0, endExclusive - 1)
    IN  IF name = <<>> \/ endExclusive <= startSeconds
        THEN UNCHANGED vars
        ELSE \E store \in {readStoreForToday(clock)} :
               \E res \in {addRangeNoOverlap(store.timeslots, startSeconds,
                                             endSeconds, [name |-> name])} :
                 createCommit(name, startSeconds, endSeconds, store, res)

createFromPickers ==
    /\ mounted
    /\ \E nameRaw \in PromptInputs : createFromPickersWith(nameRaw)

Next ==
    \/ Mount
    \/ DayChange
    \/ Tick
    \/ SetPickerStart
    \/ SetPickerEnd
    \/ SetStartAtSix
    \/ resetTimeslots
    \/ createFromPickers

Spec == Init /\ [][Next]_vars

---------------------------------------------------------------------------
(* The colour driver: colorFromName applied to a name and the two flags *)

ColorAlphabet == {97, 65535}

ColorNames == UNION {[1..k -> ColorAlphabet] : k \in 0..MaxNameLen}

InitColor ==
    /\ clock = [day |-> 0, sec |-> 0]
    /\ storage = NoItem
    /\ timeslots = <<>>
    /\ timeslotsDebug = <<Punct("{"), Punct("}")>>
    /\ dayRemainingPercent = getDayRemainingPercent(clock)
    /\ remainingLabel = formatHhMmSs(getRemainingSeconds(clock))
    /\ remainingSecondsValue = getRemainingSeconds(clock)
    /\ remainingParts = formatHhMmSsParts(getRemainingSeconds(clock))
    /\ nowSeconds = getSecondsSinceMidnight(clock)
    /\ pickerStart = toTimeStringHHMM(0)
    /\ pickerEnd = toTimeStringHHMM(0)
    /\ startAtSix = TRUE
    /\ mounted = FALSE
    /\ savedStore = [date |-> <<>>, timeslots |-> <<>>]
    /\ lastCreate = NoCreate
    /\ \E name \in ColorNames, isPast \in BOOLEAN, isRunning \in BOOLEAN :
          colorCall = [NoColorCall EXCEPT !.name = name, !.isPast = isPast,
                                          !.isRunning = isRunning]

ColorApply ==
    /\ ~colorCall.done
    /\ colorCall' = [colorCall EXCEPT
                        !.done = TRUE,
                        !.out = colorFromName(colorCall.name, colorCall.isPast,
                                              colorCall.isRunning)]
    /\ UNCHANGED appVars

NextColor == ColorApply

SpecColor == InitColor /\ [][NextColor]_vars

---------------------------------------------------------------------------
(* Properties *)

Entries(list) == {list[i] : i \in DOMAIN list}

\* adjacent entries a, b have a.end < b.start
NonOverlapping(list) ==
    \A i \in 1..(Len(list) - 1) : list[i].end < list[i + 1].start

InDay(list) ==
    \A i \in DOMAIN list :
        0 <= list[i].start /\ list[i].start <= list[i].end /\ list[i].end <= LastSecond

\* no two adjacent entries are contiguous with the same name
FullyMerged(list) ==
    \A i \in 1..(Len(list) - 1) :
        ~(list[i].end + 1 = list[i + 1].start
            /\ list[i].meta.name = list[i + 1].meta.name)

\* r and q share at least one second
Overlap(r, q) == r.start <= q.end /\ q.start <= r.end

\* what the item of localStorage holds
persisted == JSONparse(storage.text)

\* the normalized range the last create asked for
requested == normalizeRange(lastCreate.start, lastCreate.end)

createOk == lastCreate.called /\ lastCreate.threw = ""

\* the date of the blob the last create found in localStorage
dateBefore == JSONparse(lastCreate.storageBefore.text).date

\* C1: the timeslots returned by insert, those rendered and those persisted
\* are sorted by start, pairwise non-overlapping and within 0..86399
StoreInvariant ==
    /\ NonOverlapping(timeslots) /\ InDay(timeslots)
    /\ NonOverlapping(persisted.timeslots) /\ InDay(persisted.timeslots)
    /\ mounted => persisted.ok /\ persisted.hasTimeslots
    /\ createOk => NonOverlapping(lastCreate.next) /\ InDay(lastCreate.next)

StoreInvariantWitness ==
    /\ createOk
    /\ clock.day = 1
    /\ Len(lastCreate.list) = 2
    /\ Len(timeslots) = 3
    /\ persisted.timeslots = timeslots

\* C2: a create whose range shares a second with any entry of the store fails
\* with an overlap error and leaves the rendered and the persisted store as
\* they were
OverlapRejected ==
    (lastCreate.called
        /\ \E i \in DOMAIN lastCreate.list : Overlap(lastCreate.list[i], requested))
    => /\ lastCreate.threw \in {"overlap with previous range", "overlap with next range"}
       /\ storage = lastCreate.storageBefore
       /\ timeslots = lastCreate.timeslotsBefore

\* an overlap with an entry that is no neighbour of the insert position: the
\* range is to go in after the first of three entries and reaches the third
OverlapRejectedWitness ==
    /\ lastCreate.called
    /\ Len(lastCreate.list) = 3
    /\ findInsertPos(lastCreate.list, requested.start) = 1
    /\ Overlap(lastCreate.list[3], requested)
    /\ lastCreate.threw = "overlap with previous range"
    /\ storage = lastCreate.storageBefore

\* where the new range ends after a merge with the right neighbour, if any
endAfterRightMerge ==
    IF \E j \in DOMAIN lastCreate.list :
            /\ lastCreate.list[j].start = requested.end + 1
            /\ lastCreate.list[j].meta.name = lastCreate.name
    THEN (CHOOSE b \in Entries(lastCreate.list) :
            b.start = requested.end + 1 /\ b.meta.name = lastCreate.name).end
    ELSE requested.end

\* C3 as stated: inserting [a.end+1, x] with the name of a gives one entry
\* [a.start, x]; with another name both [a.start, a.end] and [a.end+1, x] remain
MergeOnContiguityAsStated ==
    createOk =>
        \A i \in DOMAIN lastCreate.list :
            LET a == lastCreate.list[i]
            IN  a.end + 1 = requested.start =>
                    IF a.meta.name = lastCreate.name
                    THEN Range(a.start, requested.end, a.meta.name)
                            \in Entries(lastCreate.next)
                    ELSE /\ a \in Entries(lastCreate.next)
                         /\ Range(requested.start, requested.end, lastCreate.name)
                                \in Entries(lastCreate.next)

\* C3 amended: the entry that holds the new range ends at x, or at b.end when
\* an entry b with the name of the new range starts at x + 1
MergeOnContiguity ==
    createOk =>
        \A i \in DOMAIN lastCreate.list :
            LET a == lastCreate.list[i]
            IN  a.end + 1 = requested.start =>
                    IF a.meta.name = lastCreate.name
                    THEN /\ Range(a.start, endAfterRightMerge, a.meta.name)
                                \in Entries(lastCreate.next)
                         /\ \A q \in Entries(lastCreate.next) :
                                q.start # requested.start
                    ELSE /\ a \in Entries(lastCreate.next)
                         /\ Range(requested.start, endAfterRightMerge, lastCreate.name)
                                \in Entries(lastCreate.next)

MergeOnContiguityWitness ==
    /\ createOk
    /\ lastCreate.mergedLeft
    /\ lastCreate.mergedRight
    /\ Len(lastCreate.list) = 2
    /\ Len(lastCreate.next) = 1

\* C4: the list handed to insert reads after the call as it did before
CopyOnWrite == lastCreate.called => lastCreate.listAfter = lastCreate.list

\* C5: a blob that is absent, unparsable or of another date loads as the
\* empty store of today, and the first create after it persists only its slot
StaleDiscarded ==
    /\ (~storage.present \/ ~persisted.ok \/ persisted.date # getTodayArray(clock))
        => readStoreForToday(clock) = [date |-> getTodayArray(clock), timeslots |-> <<>>]
    /\ (createOk /\ dateBefore # lastCreate.today)
        => /\ lastCreate.list = <<>>
           /\ persisted.date = lastCreate.today
           /\ persisted.timeslots
                = <<Range(requested.start, requested.end, lastCreate.name)>>

StaleDiscardedWitness ==
    /\ createOk
    /\ clock.day = 1
    /\ dateBefore = StartDate
    /\ Len(lastCreate.timeslotsBefore) = 3
    /\ Len(persisted.timeslots) = 1

\* r lies within one entry of list that has its name
Covered(r, list) ==
    \E q \in Entries(list) :
        q.start <= r.start /\ r.end <= q.end /\ q.meta.name = r.meta.name

\* C6: what was saved loads back deep-equal while the date is unchanged, and a
\* create on the day of the blob keeps every range that was there and adds its own
RoundTrip ==
    /\ savedStore.date = getTodayArray(clock)
        => /\ storage.present
           /\ readStoreForToday(clock).timeslots = savedStore.timeslots
           /\ readStoreForToday(clock).date = savedStore.date
    /\ (createOk /\ dateBefore = lastCreate.today)
        => /\ lastCreate.list = lastCreate.timeslotsBefore
           /\ \A i \in DOMAIN lastCreate.timeslotsBefore :
                Covered(lastCreate.timeslotsBefore[i], persisted.timeslots)
           /\ Covered(Range(requested.start, requested.end, lastCreate.name),
                      persisted.timeslots)

\* two successive creates of disjoint ranges: both are in the persisted store
RoundTripWitness ==
    /\ createOk
    /\ dateBefore = lastCreate.today
    /\ Len(lastCreate.timeslotsBefore) = 1
    /\ lastCreate.timeslotsBefore[1].end + 1 < requested.start
    /\ Len(persisted.timeslots) = 2
    /\ savedStore.timeslots = persisted.timeslots

\* C7: the hue depends on the name only and lies in 0..359; the flags select
\* saturation, lightness and alpha
HueDeterminism ==
    colorCall.done =>
        /\ colorCall.out.hue \in 0..359
        /\ \A p \in BOOLEAN, r \in BOOLEAN :
                colorFromName(colorCall.name, p, r).hue = colorCall.out.hue
        /\ <<colorCall.out.saturation, colorCall.out.lightness, colorCall.out.alpha>>
                = IF colorCall.isRunning THEN <<5, 30, "0.8">>
                  ELSE IF colorCall.isPast THEN <<15, 25, "0.35">>
                  ELSE <<70, 55, "0.7">>

\* a name whose hash is negative (-1565599173), running and not past
HueDeterminismWitness ==
    /\ colorCall.done
    /\ colorCall.name = <<97, 97, 65535, 97, 97, 97>>
    /\ colorCall.out.hue = 213
    /\ colorCall.isRunning
    /\ ~colorCall.isPast

\* C8: after every insert no two adjacent entries are contiguous with the
\* same name
FullyMergedInvariant ==
    /\ FullyMerged(timeslots)
    /\ FullyMerged(persisted.timeslots)
    /\ createOk => FullyMerged(lastCreate.next)

\* a merge to the right only, next to an entry of another name that touches
FullyMergedWitness ==
    /\ createOk
    /\ lastCreate.mergedRight
    /\ ~lastCreate.mergedLeft
    /\ Len(lastCreate.next) = 2
    /\ lastCreate.next[1].end + 1 = lastCreate.next[2].start

\* C9 as stated: on every tick the seconds handed to the formatter are
\* below 86400
RemainingBelowDayOnTick ==
    [][Tick => remainingSecondsValue' < DaySeconds]_vars

\* C9 amended: the seconds handed to the formatter are 86400 - nowSeconds, in
\* 1..86400, and reach 86400 exactly at midnight, where the hours field is 24
RemainingWithinDay ==
    /\ remainingSecondsValue = DaySeconds - nowSeconds
    /\ remainingSecondsValue \in 1..DaySeconds
    /\ remainingSecondsValue = DaySeconds <=> nowSeconds = 0
    /\ remainingParts = formatHhMmSsParts(remainingSecondsValue)
    /\ remainingLabel = formatHhMmSs(remainingSecondsValue)
    /\ StringToNumber(remainingParts.hh) <= 24
    /\ StringToNumber(remainingParts.hh) = 24
            => nowSeconds = 0 /\ remainingLabel = <<50, 52, 58, 48, 48, 58, 48, 48>>

\* a tick at midnight of the second day
RemainingWithinDayWitness ==
    /\ mounted
    /\ clock = [day |-> 1, sec |-> 0]
    /\ nowSeconds = 0
    /\ remainingSecondsValue = DaySeconds
    /\ remainingParts.hh = <<50, 52>>

\* the progress of the viewport that starts at viewStart
ProgressFrom(viewStart) ==
    ClampPercent(Frac((nowSeconds - viewStart) * 100, DaySeconds - viewStart))

\* C10 as stated: the viewport progress follows the selected viewport start
ViewportFollowsStart == viewportProgressPercent = ProgressFrom(viewStartSeconds)

\* C10 amended: the viewport progress is that of the 06:00 viewport under both
\* settings of the toggle; it follows the selected start only when that is 06:00
ViewportFromSix ==
    /\ viewportProgressPercent = ProgressFrom(6 * 3600)
    /\ startAtSix => viewportProgressPercent = ProgressFrom(viewStartSeconds)
    /\ nowSeconds <= 6 * 3600 => viewportProgressPercent = Frac(0, 1)
    /\ (~startAtSix /\ nowSeconds > 0)
            => viewportProgressPercent # ProgressFrom(viewStartSeconds)

ViewportFromSixWitness ==
    /\ mounted
    /\ ~startAtSix
    /\ nowSeconds = VIEWPORT_START_6
    /\ viewportProgressPercent = Frac(0, 1)
    /\ ProgressFrom(viewStartSeconds) = Frac(25, 1)

====
